---- MODULE Spec2Model ----
(***************************************************************************)
(* Model of wagtail/models/sites.py: the Site table, the hostname          *)
(* resolver get_site_for_hostname, the per-request memo of                 *)
(* Site.find_for_request, the default-site validation Site.clean_fields    *)
(* and the root-path cache of Site.get_site_root_paths.                    *)
(*                                                                         *)
(* Python None / "attribute not set" is modelled as the empty sequence and *)
(* a present value v as <<v>>, so that every variable keeps one type.      *)
(* A query's rows of equal sort key come in primary-key order (the row     *)
(* order of the storage), so a query is a function of the table.           *)
(***************************************************************************)
EXTENDS Integers, Sequences, FiniteSets, TLC

VARIABLES
    sites,        \* the rows of the Site table
    cache,        \* the cache entry "wagtail_site_root_paths"
    i18n,         \* settings.WAGTAIL_I18N_ENABLED
    requests,     \* the request objects, each with its _wagtail_site attribute
    resolutions,  \* per request, how often _find_for_request has run
    writers,      \* per writer, the instance validated and not yet saved
    callers,      \* per call of get_site_root_paths, its position and its list
    ret           \* what the last operation returned or raised

vars == <<sites, cache, i18n, requests, resolutions, writers, callers, ret>>

\* ---------------------------------------------------------------- bounds
\* primary keys available to the resolver specification
MaxSites == 3
\* primary keys available to the request specification
MaxRequestSites == 2
\* primary keys available to the cache, writer and race specifications
MaxSmallSites == 2
\* cap of the per-request counter of resolutions
MaxResolutions == 2

\* ------------------------------------------------------ program constants
MATCH_HOSTNAME_PORT == 0
MATCH_HOSTNAME_DEFAULT == 1
MATCH_DEFAULT == 2
MATCH_HOSTNAME == 3

\* ------------------------------------------------------------ input sets
Hostnames == {"a.com", "b.com"}
\* the ascending order of the hostnames (string comparison)
HostOrder == <<"a.com", "b.com">>
\* ports of the stored sites, and ports a request can come in on
Ports == {80, 8000}
RequestPorts == {80, 443, 8000}

\* The page tree: "/home/" (en) with its translation "/home-fr/" (fr), and
\* the page "/home-fr/blog/" below the translation.  A url_path is the
\* sequence of its characters' ranks: "/home/" > "/home-fr/blog/" > "/home-fr/"
\* as strings, because "/" sorts after "-".
Page == {
    [id |-> 1, url_path |-> <<2>>, language_code |-> "en", translation_key |-> "k1"],
    [id |-> 2, url_path |-> <<1>>, language_code |-> "fr", translation_key |-> "k1"],
    [id |-> 3, url_path |-> <<1, 1>>, language_code |-> "fr", translation_key |-> "k2"]}

PageIds == {p.id : p \in Page}

PageOf(pid) == CHOOSE p \in Page : p.id = pid

\* ------------------------------------------------------------- the table
\* rows of the Site table over the given primary keys, ports and root pages
SiteRows(pks, ports, roots) ==
    [id : pks, hostname : Hostnames, port : ports,
     is_default_site : BOOLEAN, root_page : roots]

\* Meta.unique_together = ("hostname", "port"), and the primary key
UniqueTogether(T) ==
    \A s, t \in T :
        (s.id = t.id \/ (s.hostname = t.hostname /\ s.port = t.port)) => s = t

Defaults(T) == {s \in T : s.is_default_site}

\* string comparison of two url_paths
RECURSIVE PathLess(_, _)
PathLess(p, q) ==
    IF p = <<>> THEN q # <<>>
    ELSE IF q = <<>> THEN FALSE
    ELSE IF Head(p) = Head(q) THEN PathLess(Tail(p), Tail(q))
    ELSE Head(p) < Head(q)

HostRank(h) == CHOOSE i \in 1..Len(HostOrder) : HostOrder[i] = h

\* ------------------------------------------------ get_site_for_hostname
\* the annotation match=Case(When(...), ..., default=MATCH_HOSTNAME)
MatchNoPort(site, hostname, port) ==
    IF site.hostname = hostname THEN MATCH_HOSTNAME_PORT
    ELSE IF site.is_default_site THEN MATCH_DEFAULT
    ELSE MATCH_HOSTNAME

Match(site, hostname, port) ==
    IF site.hostname = hostname /\ site.port = port THEN MATCH_HOSTNAME_PORT
    ELSE IF site.hostname = hostname /\ site.is_default_site
        THEN MATCH_HOSTNAME_DEFAULT
    ELSE IF site.is_default_site THEN MATCH_DEFAULT
    ELSE MATCH_HOSTNAME

\* .filter(Q(hostname=hostname) | Q(is_default_site=True)).order_by("match")
RECURSIVE OrderByMatch(_, _, _)
OrderByMatch(S, hostname, port) ==
    IF S = {} THEN <<>>
    ELSE LET first == CHOOSE s \in S : \A t \in S \ {s} :
                 \/ Match(s, hostname, port) < Match(t, hostname, port)
                 \/ /\ Match(s, hostname, port) = Match(t, hostname, port)
                    /\ s.id < t.id
         IN  <<first>> \o OrderByMatch(S \ {first}, hostname, port)

SitesQuery(T, hostname, port) ==
    OrderByMatch({s \in T : s.hostname = hostname \/ s.is_default_site},
                 hostname, port)

Found(site) == [raised |-> "", site |-> <<site>>]
DoesNotExist == [raised |-> "DoesNotExist", site |-> <<>>]

get_site_for_hostname_first(T, hostname, port) ==
    LET sitesList == SitesQuery(T, hostname, port) IN
    IF Len(sitesList) > 0 THEN Found(sitesList[1]) ELSE DoesNotExist

get_site_for_hostname_default(T, hostname, port) ==
    LET sitesList == SitesQuery(T, hostname, port) IN
    IF Len(sitesList) > 0
    THEN IF \/ Len(sitesList) = 1
            \/ Match(sitesList[1], hostname, port)
                   \in {MATCH_HOSTNAME_PORT, MATCH_HOSTNAME_DEFAULT}
         THEN Found(sitesList[1])
         ELSE IF Match(sitesList[1], hostname, port) = MATCH_DEFAULT
              THEN Found(sitesList[1])
              ELSE DoesNotExist
    ELSE DoesNotExist

get_site_for_hostname(T, hostname, port) ==
    LET sitesList == SitesQuery(T, hostname, port) IN
    IF Len(sitesList) > 0
    THEN IF \/ Len(sitesList) = 1
            \/ Match(sitesList[1], hostname, port)
                   \in {MATCH_HOSTNAME_PORT, MATCH_HOSTNAME_DEFAULT}
         THEN Found(sitesList[1])
         ELSE IF Match(sitesList[1], hostname, port) = MATCH_DEFAULT
              \* sites[len(sites) == 2]: index 1 when exactly two rows, else 0
              THEN Found(sitesList[IF Len(sitesList) = 2 THEN 2 ELSE 1])
              ELSE DoesNotExist
    ELSE DoesNotExist

\* ------------------------------------------------------- initial values
NoCache == [present |-> FALSE, value |-> <<>>]
NoRet == [op |-> "none"]
IdleWriters == [w \in {"w1", "w2"} |-> [pc |-> "idle", inst |-> <<>>]]
IdleCallers ==
    [c \in {"c1", "c2"} |-> [pc |-> "idle", missed |-> FALSE, result |-> <<>>]]

\* the request objects: META of each (Host header split at ":", server port)
RequestIds == {"r1", "r2"}
NewRequests ==
    [r \in RequestIds |->
        [host |-> IF r = "r1" THEN <<"a.com">> ELSE <<"b.com", "8000">>,
         port |-> IF r = "r1" THEN 80 ELSE 8000,
         has_wagtail_site |-> FALSE,
         wagtail_site |-> <<>>]]

\* ------------------------------------------------- plain table mutations
\* Model.save() of a row (create when the key is free, update otherwise);
\* the database rejects a duplicate (hostname, port) with an IntegrityError
SaveRow(T, row) ==
    LET T2 == {s \in T : s.id # row.id} \cup {row} IN
    IF UniqueTogether(T2) THEN T2 ELSE T

DeleteRow(T, pk) == {s \in T : s.id # pk}

\* ------------------------------------------- the resolver specification
ResolveRows == SiteRows(1..MaxSites, Ports, {1})

Init ==
    /\ sites = {}
    /\ cache = NoCache
    /\ i18n = FALSE
    /\ requests = NewRequests
    /\ resolutions = [r \in RequestIds |-> 0]
    /\ writers = IdleWriters
    /\ callers = IdleCallers
    /\ ret = NoRet

ResolveSave ==
    \E row \in ResolveRows :
        /\ sites' = SaveRow(sites, row)
        /\ ret' = NoRet
        /\ UNCHANGED <<cache, i18n, requests, resolutions, writers, callers>>

ResolveDelete ==
    \E pk \in 1..MaxSites :
        /\ \E s \in sites : s.id = pk
        /\ sites' = DeleteRow(sites, pk)
        /\ ret' = NoRet
        /\ UNCHANGED <<cache, i18n, requests, resolutions, writers, callers>>

Resolve ==
    \E hostname \in Hostnames, port \in RequestPorts :
        /\ ret' = [op |-> "get_site_for_hostname", hostname |-> hostname,
                   port |-> port,
                   result |-> get_site_for_hostname(sites, hostname, port)]
        /\ UNCHANGED <<sites, cache, i18n, requests, resolutions, writers, callers>>

Next == ResolveSave \/ ResolveDelete \/ Resolve

Spec == Init /\ [][Next]_vars

\* ------------------------------------------------ claims on the resolver
Resolved == ret.op = "get_site_for_hostname"

HostnameMatches(T, hostname) == {s \in T : s.hostname = hostname}
ExactMatches(T, hostname, port) ==
    {s \in T : s.hostname = hostname /\ s.port = port}

\* the default site is the best candidate and matches by its flag alone
DefaultByExclusion ==
    /\ Resolved
    /\ Cardinality(Defaults(sites)) = 1
    /\ \A d \in Defaults(sites) : d.hostname # ret.hostname
    /\ ExactMatches(sites, ret.hostname, ret.port) = {}

\* C1: when the best candidate is the default site matched only by its
\* default flag, the resolver returns the single non-default site with the
\* requested hostname if exactly one exists, and the default site if none or
\* two or more exist.
C1_SingleHostnameBeatsDefault ==
    DefaultByExclusion =>
        LET H == HostnameMatches(sites, ret.hostname) IN
        IF Cardinality(H) = 1
        THEN \A s \in H : ret.result = Found(s)
        ELSE \A d \in Defaults(sites) : ret.result = Found(d)

C1_Witness ==
    /\ DefaultByExclusion
    /\ Cardinality(sites) = 3
    /\ Cardinality(HostnameMatches(sites, ret.hostname)) = 1
    /\ \A s \in HostnameMatches(sites, ret.hostname) : ret.result = Found(s)

\* C2: with at most one default site, a site with exactly the requested
\* hostname and port is returned; failing that, a default site with the
\* requested hostname is returned, whatever other sites share the hostname.
C2_ExactThenHostnameDefault ==
    (Resolved /\ Cardinality(Defaults(sites)) <= 1) =>
        LET E == ExactMatches(sites, ret.hostname, ret.port) IN
        IF E # {}
        THEN \A s \in E : ret.result = Found(s)
        ELSE \A d \in Defaults(sites) :
                 d.hostname = ret.hostname => ret.result = Found(d)

\* T1 and T2 share the hostname; T2 has the requested port, T1 is the default
C2_Witness ==
    /\ Resolved
    /\ \E t1, t2 \in sites :
        /\ t1.hostname = ret.hostname /\ t2.hostname = ret.hostname
        /\ t1.port # ret.port /\ t2.port = ret.port
        /\ t1.id < t2.id
        /\ t1.is_default_site /\ ~t2.is_default_site
        /\ ret.result = Found(t2)

\* C3 as stated: DoesNotExist is raised exactly when no site has the
\* requested hostname and no site is default.
C3_NotFoundIffNoCandidate ==
    Resolved =>
        (ret.result.raised = "DoesNotExist"
            <=> (HostnameMatches(sites, ret.hostname) = {} /\ Defaults(sites) = {}))

\* C3 as amended: DoesNotExist is raised exactly when there is no candidate,
\* or when no site is default, no site has the requested hostname and port,
\* and two or more sites have the requested hostname; otherwise a site of the
\* table is returned.
C3_NotFoundIffNoneOrAmbiguous ==
    Resolved =>
        LET H == HostnameMatches(sites, ret.hostname) IN
        /\ ret.result.raised = "DoesNotExist" <=>
              /\ Defaults(sites) = {}
              /\ \/ H = {}
                 \/ /\ Cardinality(H) >= 2
                    /\ ExactMatches(sites, ret.hostname, ret.port) = {}
        /\ ret.result.raised = "" =>
              /\ Len(ret.result.site) = 1
              /\ ret.result.site[1] \in sites

\* several non-default sites share the hostname, none has the port
C3_Witness ==
    /\ Resolved
    /\ Defaults(sites) = {}
    /\ Cardinality(HostnameMatches(sites, ret.hostname)) >= 2
    /\ ExactMatches(sites, ret.hostname, ret.port) = {}
    /\ ret.result = DoesNotExist

\* -------------------------------------------------- Site.find_for_request
\* django.http.request.split_domain_port on a Host header given as its
\* parts around ":" : (domain, port), the port "" when the header has none
split_domain_port(host) ==
    <<host[1], IF Len(host) > 1 THEN host[2] ELSE "">>

\* Site._find_for_request: the site, or None when DoesNotExist is raised
_find_for_request(T, request) ==
    LET hostname == split_domain_port(request.host)[1]
        port == request.port
        found == get_site_for_hostname(T, hostname, port)
    IN  IF found.raised = "DoesNotExist" THEN <<>> ELSE <<found.site[1]>>

\* the outcome of a call: the request object afterwards, the value returned
\* and whether _find_for_request ran
find_for_request_always(T, request) ==
    LET site == _find_for_request(T, request) IN
    [request |-> [request EXCEPT !.has_wagtail_site = TRUE,
                                 !.wagtail_site = site],
     result |-> site, resolved |-> TRUE]

find_for_request(T, request) ==
    IF ~request.has_wagtail_site
    THEN LET site == _find_for_request(T, request) IN
         [request |-> [request EXCEPT !.has_wagtail_site = TRUE,
                                      !.wagtail_site = site],
          result |-> site, resolved |-> TRUE]
    ELSE [request |-> request, result |-> request.wagtail_site,
          resolved |-> FALSE]

\* -------------------------------------------- the request specification
RequestRows == SiteRows(1..MaxRequestSites, {80}, {1})

RequestSave ==
    \E row \in RequestRows :
        /\ sites' = SaveRow(sites, row)
        /\ ret' = NoRet
        /\ UNCHANGED <<cache, i18n, requests, resolutions, writers, callers>>

RequestDelete ==
    \E pk \in 1..MaxRequestSites :
        /\ \E s \in sites : s.id = pk
        /\ sites' = DeleteRow(sites, pk)
        /\ ret' = NoRet
        /\ UNCHANGED <<cache, i18n, requests, resolutions, writers, callers>>

FindForRequest ==
    \E r \in RequestIds :
        LET out == find_for_request(sites, requests[r]) IN
        /\ out.resolved => resolutions[r] < MaxResolutions
        /\ requests' = [requests EXCEPT ![r] = out.request]
        /\ resolutions' = [resolutions EXCEPT
                              ![r] = IF out.resolved THEN @ + 1 ELSE @]
        /\ ret' = [op |-> "find_for_request", request |-> r,
                   result |-> out.result]
        /\ UNCHANGED <<sites, cache, i18n, writers, callers>>

\* if request is None: return None
FindForRequestNone ==
    /\ ret' = [op |-> "find_for_request", request |-> "None", result |-> <<>>]
    /\ UNCHANGED <<sites, cache, i18n, requests, resolutions, writers, callers>>

NextRequest ==
    RequestSave \/ RequestDelete \/ FindForRequest \/ FindForRequestNone

SpecRequest == Init /\ [][NextRequest]_vars

\* ------------------------------------------- claims on find_for_request
Finding == ret.op = "find_for_request"

root_url(site) ==
    IF site.port = 80 THEN <<"http://", site.hostname>>
    ELSE IF site.port = 443 THEN <<"https://", site.hostname>>
    ELSE <<"http://", site.hostname, ":", site.port>>

\* SiteRootPath = namedtuple("SiteRootPath", "site_id root_path root_url language_code")
SiteRootPath(site_id, root_path, root_url_, language_code) ==
    <<site_id, root_path, root_url_, language_code>>

\* .order_by("-root_page__url_path", "-is_default_site", "hostname")
SiteBefore(s, t) ==
    LET ps == PageOf(s.root_page).url_path
        pt == PageOf(t.root_page).url_path
    IN  \/ PathLess(pt, ps)
        \/ /\ ps = pt
           /\ \/ s.is_default_site /\ ~t.is_default_site
              \/ /\ s.is_default_site = t.is_default_site
                 /\ \/ HostRank(s.hostname) < HostRank(t.hostname)
                    \/ /\ s.hostname = t.hostname
                       /\ s.id < t.id

RECURSIVE OrderByRootPath(_)
OrderByRootPath(S) ==
    IF S = {} THEN <<>>
    ELSE LET first == CHOOSE s \in S : \A t \in S \ {s} : SiteBefore(s, t)
         IN  <<first>> \o OrderByRootPath(S \ {first})

\* page.get_translations(inclusive=True): the pages of the page's
\* translation_key, the page itself included, in page order
RECURSIVE PagesInOrder(_)
PagesInOrder(S) ==
    IF S = {} THEN <<>>
    ELSE LET first == CHOOSE p \in S : \A q \in S : p.id <= q.id
         IN  <<first>> \o PagesInOrder(S \ {first})

get_translations(page) ==
    PagesInOrder({p \in Page : p.translation_key = page.translation_key})

\* the entries one site adds to the result
SiteEntries(site, enabled) ==
    IF enabled
    THEN LET tr == get_translations(PageOf(site.root_page)) IN
         [k \in 1..Len(tr) |->
             SiteRootPath(site.id, tr[k].url_path, root_url(site),
                          tr[k].language_code)]
    ELSE <<SiteRootPath(site.id, PageOf(site.root_page).url_path,
                        root_url(site),
                        PageOf(site.root_page).language_code)>>

RECURSIVE ExtendAll(_, _)
ExtendAll(ordered, enabled) ==
    IF ordered = <<>> THEN <<>>
    ELSE SiteEntries(Head(ordered), enabled) \o ExtendAll(Tail(ordered), enabled)

\* the loop over the ordered sites
ScanFirstOnly(T, enabled) ==
    LET ordered == OrderByRootPath(T) IN
    IF ordered = <<>> THEN <<>> ELSE SiteEntries(Head(ordered), enabled)

ScanSiteRootPaths(T, enabled) == ExtendAll(OrderByRootPath(T), enabled)

\* any(len(site_record) == 3 for site_record in result)
AnyLegacy(value) == \E k \in 1..Len(value) : Len(value[k]) = 3

\* if result is None or any(...): the table is scanned
NeedsScanNoneOnly(entry) == ~entry.present

NeedsScan(entry) == ~entry.present \/ AnyLegacy(entry.value)

\* one whole call: the cache entry afterwards, the list returned and whether
\* the table was scanned
get_site_root_paths_default_empty(entry, T, enabled) ==
    IF entry.present /\ AnyLegacy(entry.value)
    THEN LET result == ScanSiteRootPaths(T, enabled) IN
         [cache |-> [present |-> TRUE, value |-> result],
          result |-> result, scanned |-> TRUE]
    ELSE [cache |-> entry, result |-> entry.value, scanned |-> FALSE]

get_site_root_paths(entry, T, enabled) ==
    IF NeedsScan(entry)
    THEN LET result == ScanSiteRootPaths(T, enabled) IN
         [cache |-> [present |-> TRUE, value |-> result],
          result |-> result, scanned |-> TRUE]
    ELSE [cache |-> entry, result |-> entry.value, scanned |-> FALSE]

\* the eviction of "wagtail_site_root_paths" when a site is saved or deleted
EvictSiteRootPaths(entry) == NoCache

\* --------------------------------------------- the cache specification
\* the (hostname, port) pairs of the rows: one per branch of root_url
CacheRows ==
    {row \in SiteRows(1..MaxSmallSites, RequestPorts, PageIds) :
        <<row.hostname, row.port>> \in
            {<<"a.com", 80>>, <<"b.com", 443>>, <<"b.com", 8000>>}}

\* entries as written before the language_code field existed
LegacyCaches ==
    {[present |-> TRUE, value |-> <<<<1, <<2>>, <<"http://", "a.com">>>>>>],
     [present |-> TRUE,
      value |-> <<<<1, <<2>>, <<"http://", "a.com">>>>,
                  <<2, <<1>>, <<"https://", "b.com">>>>>>]}

InitialTables ==
    {{}, {[id |-> 1, hostname |-> "a.com", port |-> 80,
           is_default_site |-> TRUE, root_page |-> 1]}}

\* what the last operation did: for get_site_root_paths the cache entry it
\* found, the list it returned and whether it scanned the table; for the
\* others whether they removed a cache entry; and the operation before it
CacheRet(op, before, value, scanned, evicted) ==
    [op |-> op, before |-> before, value |-> value, scanned |-> scanned,
     evicted |-> evicted, prev_op |-> ret.op, prev_value |-> ret.value,
     prev_evicted |-> ret.evicted]

InitCache ==
    /\ sites \in InitialTables
    /\ cache \in {NoCache} \cup LegacyCaches
    /\ i18n \in BOOLEAN
    /\ requests = NewRequests
    /\ resolutions = [r \in RequestIds |-> 0]
    /\ writers = IdleWriters
    /\ callers = IdleCallers
    /\ ret = [op |-> "none", before |-> NoCache, value |-> <<>>,
              scanned |-> FALSE, evicted |-> FALSE, prev_op |-> "none",
              prev_value |-> <<>>, prev_evicted |-> FALSE]

CacheSave ==
    \E row \in CacheRows :
        /\ SaveRow(sites, row) # sites
        /\ sites' = SaveRow(sites, row)
        /\ cache' = EvictSiteRootPaths(cache)
        /\ ret' = CacheRet("save", NoCache, <<>>, FALSE, cache.present)
        /\ UNCHANGED <<i18n, requests, resolutions, writers, callers>>

CacheDelete ==
    \E pk \in 1..MaxSmallSites :
        /\ \E s \in sites : s.id = pk
        /\ sites' = DeleteRow(sites, pk)
        /\ cache' = EvictSiteRootPaths(cache)
        /\ ret' = CacheRet("delete", NoCache, <<>>, FALSE, cache.present)
        /\ UNCHANGED <<i18n, requests, resolutions, writers, callers>>

\* the entry's time-to-live of 3600 seconds runs out
CacheExpire ==
    /\ cache.present
    /\ cache' = NoCache
    /\ ret' = CacheRet("expire", NoCache, <<>>, FALSE, TRUE)
    /\ UNCHANGED <<sites, i18n, requests, resolutions, writers, callers>>

GetSiteRootPaths ==
    LET out == get_site_root_paths(cache, sites, i18n) IN
    /\ cache' = out.cache
    /\ ret' = CacheRet("get_site_root_paths", cache, out.result,
                       out.scanned, FALSE)
    /\ UNCHANGED <<sites, i18n, requests, resolutions, writers, callers>>

NextCache == CacheSave \/ CacheDelete \/ CacheExpire \/ GetSiteRootPaths

SpecCache == InitCache /\ [][NextCache]_vars

\* --------------------------------------- claims on get_site_root_paths
Got == ret.op = "get_site_root_paths"

Elems(seq) == {seq[k] : k \in 1..Len(seq)}

\* the base URL the specification gives for a (hostname, port)
ExpectedUrl(s) ==
    CASE s.port = 80 -> <<"http://", s.hostname>>
      [] s.port = 443 -> <<"https://", s.hostname>>
      [] OTHER -> <<"http://", s.hostname, ":", s.port>>

\* the root paths of a table: one entry per site, or one per translation of
\* its root page when internationalization is enabled
ExpectedEntries(T, enabled) ==
    IF enabled
    THEN {<<s.id, p.url_path, ExpectedUrl(s), p.language_code>> :
             <<s, p>> \in {sp \in T \X Page :
                 sp[2].translation_key = PageOf(sp[1].root_page).translation_key}}
    ELSE {<<s.id, PageOf(s.root_page).url_path, ExpectedUrl(s),
            PageOf(s.root_page).language_code>> : s \in T}

IsRootPathsOf(value, T, enabled) ==
    /\ Elems(value) = ExpectedEntries(T, enabled)
    /\ Len(value) = Cardinality(ExpectedEntries(T, enabled))

C5_ScanExactlyOnMissOrLegacy ==
    Got =>
        /\ ret.scanned <=>
              \/ ~ret.before.present
              \/ \E e \in Elems(ret.before.value) : Len(e) = 3
        /\ ret.scanned => cache = [present |-> TRUE, value |-> ret.value]
        /\ ~ret.scanned => (ret.value = ret.before.value /\ cache = ret.before)
        /\ ret.prev_op = "get_site_root_paths" =>
              (~ret.scanned /\ ret.value = ret.prev_value)
        /\ \A e \in Elems(ret.value) : Len(e) = 4

\* a legacy entry was found by the first call, the second is served from the
\* recomputed entry
C5_Witness ==
    /\ Got
    /\ ret.prev_op = "get_site_root_paths"
    /\ ~ret.scanned
    /\ ret.value # <<>>
    /\ ret.value = cache.value

C5_LegacyWitness ==
    /\ Got
    /\ ret.scanned
    /\ ret.before.present
    /\ ret.value # <<>>

\* C8: the list computed on a cache miss has the entry with the greater
\* root_path first, so an entry whose root_path extends another entry's
\* root_path comes before it.
C8_GreaterRootPathFirst ==
    (Got /\ ret.scanned) =>
        \A k, m \in 1..Len(ret.value) :
            k < m => ~PathLess(ret.value[k][2], ret.value[m][2])

\* the same with internationalization disabled
C8_GreaterRootPathFirstNoI18n ==
    (Got /\ ret.scanned /\ ~i18n) =>
        \A k, m \in 1..Len(ret.value) :
            k < m => ~PathLess(ret.value[k][2], ret.value[m][2])

IsProperPrefix(p, q) == Len(p) < Len(q) /\ SubSeq(q, 1, Len(p)) = p

\* the consequence alone: the longer of two nested root paths comes first
C8_LongerPrefixFirst ==
    (Got /\ ret.scanned) =>
        \A k, m \in 1..Len(ret.value) :
            IsProperPrefix(ret.value[k][2], ret.value[m][2]) => m < k

\* ------------------------------------------------------ Site.clean_fields
Valid == [raised |-> "", hostname |-> <<>>]

\* self is the instance validated (id 0: not saved yet, pk None); T the table
clean_fields_no_pk_check(self, T) ==
    LET found == Defaults(T) IN
    IF found = {} THEN Valid
    ELSE IF Cardinality(found) > 1
    THEN [raised |-> "MultipleObjectsReturned", hostname |-> <<>>]
    ELSE LET default == CHOOSE d \in found : TRUE IN
         IF self.is_default_site
         THEN [raised |-> "ValidationError", hostname |-> <<default.hostname>>]
         ELSE Valid

clean_fields(self, T) ==
    LET found == Defaults(T) IN
    \* Site.objects.get(is_default_site=True)
    IF found = {} THEN Valid
    ELSE IF Cardinality(found) > 1
    THEN [raised |-> "MultipleObjectsReturned", hostname |-> <<>>]
    ELSE LET default == CHOOSE d \in found : TRUE IN
         IF self.is_default_site /\ self.id # default.id
         THEN [raised |-> "ValidationError", hostname |-> <<default.hostname>>]
         ELSE Valid

\* --------------------------------------------- the writer specification
\* A writer validates an instance (full_clean, which runs clean_fields) and,
\* when that succeeded, saves it in a later step.
WriterIds == {"w1", "w2"}
WriterRows == SiteRows(0..MaxSmallSites, {80}, {1})

FreePks(T) == {pk \in 1..MaxSmallSites : \A s \in T : s.id # pk}

InitWriters ==
    /\ sites \in InitialTables
    /\ cache = NoCache
    /\ i18n = FALSE
    /\ requests = NewRequests
    /\ resolutions = [r \in RequestIds |-> 0]
    /\ writers = IdleWriters
    /\ callers = IdleCallers
    /\ ret = NoRet

Validate ==
    \E w \in WriterIds, self \in WriterRows :
        LET outcome == clean_fields(self, sites) IN
        /\ writers[w].pc = "idle"
        /\ self.id # 0 => \E s \in sites : s.id = self.id
        /\ writers' = [writers EXCEPT ![w] =
              IF outcome.raised = ""
              THEN [pc |-> "validated", inst |-> <<self>>]
              ELSE [pc |-> "idle", inst |-> <<>>]]
        /\ ret' = [op |-> "clean_fields", writer |-> w, self |-> self,
                   outcome |-> outcome, before |-> sites]
        /\ UNCHANGED <<sites, cache, i18n, requests, resolutions, callers>>

\* save() of the validated instance; a new instance gets the next free key
Persist ==
    \E w \in WriterIds :
        /\ writers[w].pc = "validated"
        /\ LET self == writers[w].inst[1]
               row == IF self.id # 0 THEN self
                      ELSE [self EXCEPT !.id =
                               CHOOSE pk \in FreePks(sites) :
                                   \A other \in FreePks(sites) : pk <= other]
           IN  /\ self.id = 0 => FreePks(sites) # {}
               /\ sites' = SaveRow(sites, row)
        /\ writers' = [writers EXCEPT ![w] = [pc |-> "idle", inst |-> <<>>]]
        /\ ret' = [op |-> "save", writer |-> w]
        /\ UNCHANGED <<cache, i18n, requests, resolutions, callers>>

\* the instance is dropped without being saved
Abandon ==
    \E w \in WriterIds :
        /\ writers[w].pc = "validated"
        /\ writers' = [writers EXCEPT ![w] = [pc |-> "idle", inst |-> <<>>]]
        /\ ret' = [op |-> "abandon", writer |-> w]
        /\ UNCHANGED <<sites, cache, i18n, requests, resolutions, callers>>

WriterDelete ==
    \E pk \in 1..MaxSmallSites :
        /\ \E s \in sites : s.id = pk
        /\ sites' = DeleteRow(sites, pk)
        /\ ret' = [op |-> "delete", pk |-> pk]
        /\ UNCHANGED <<cache, i18n, requests, resolutions, writers, callers>>

NextWriters == Validate \/ Persist \/ Abandon \/ WriterDelete

SpecWriters == InitWriters /\ [][NextWriters]_vars

\* ---------------------------------------------- claims on clean_fields
Validated == ret.op = "clean_fields"

\* the stored default sites that are not the validated instance itself
Conflicts ==
    {d \in Defaults(sites) : ret.self.is_default_site /\ d.id # ret.self.id}

\* C6: with at most one default site stored, clean_fields raises a
\* ValidationError naming the stored default's hostname exactly when the
\* instance is default and a stored default with another primary key exists;
\* otherwise it accepts; and it changes no stored site.
C6_RejectsSecondDefault ==
    (Validated /\ Cardinality(Defaults(sites)) <= 1) =>
        /\ ret.outcome.raised = "ValidationError" <=> Conflicts # {}
        /\ \A d \in Conflicts : ret.outcome.hostname = <<d.hostname>>
        /\ Conflicts = {} => ret.outcome = Valid
        /\ sites = ret.before
        /\ ret.outcome.raised # "" => writers[ret.writer].pc = "idle"

\* an existing non-default site is to become default beside the stored one
C6_Witness ==
    /\ Validated
    /\ Cardinality(Defaults(sites)) = 1
    /\ ret.self.id # 0
    /\ ret.outcome.raised = "ValidationError"
    /\ \E d \in Defaults(sites) :
        d.hostname # ret.self.hostname /\ ret.outcome.hostname = <<d.hostname>>

\* the stored default itself is validated and accepted
C6_AcceptWitness ==
    /\ Validated
    /\ ret.self \in Defaults(sites)
    /\ ret.outcome = Valid

\* C9: when every save follows a successful clean_fields, at most one site
\* is default in every state, for every interleaving of the writers' steps.
C9_AtMostOneDefault == Cardinality(Defaults(sites)) <= 1

\* ----------------------------------------------- the race specification
\* Concurrent calls of get_site_root_paths, each in its steps: cache.get,
\* the scan of the table, cache.set, return.  The table does not change.
CallerIds == {"c1", "c2"}

\* the tables over the rows of the cache specification
RECURSIVE TablesUpTo(_)
TablesUpTo(n) ==
    IF n = 0 THEN {{}}
    ELSE {T \cup X : T \in TablesUpTo(n - 1),
                     X \in {{}} \cup {{row} : row \in {r \in CacheRows : r.id = n}}}

RaceTables == {T \in TablesUpTo(MaxSmallSites) : UniqueTogether(T)}

InitRace ==
    /\ sites \in RaceTables
    /\ cache = NoCache
    /\ i18n \in BOOLEAN
    /\ requests = NewRequests
    /\ resolutions = [r \in RequestIds |-> 0]
    /\ writers = IdleWriters
    /\ callers = IdleCallers
    /\ ret = NoRet

\* result = cache.get("wagtail_site_root_paths")
CacheGet ==
    \E c \in CallerIds :
        /\ callers[c].pc = "idle"
        /\ callers' = [callers EXCEPT ![c] =
              IF NeedsScan(cache)
              THEN [pc |-> "miss", missed |-> TRUE, result |-> <<>>]
              ELSE [pc |-> "return", missed |-> FALSE, result |-> cache.value]]
        /\ UNCHANGED <<sites, cache, i18n, requests, resolutions, writers, ret>>

\* result = []; for site in Site.objects...: result.extend / result.append
Scan ==
    \E c \in CallerIds :
        /\ callers[c].pc = "miss"
        /\ callers' = [callers EXCEPT
              ![c].pc = "scanned",
              ![c].result = ScanSiteRootPaths(sites, i18n)]
        /\ UNCHANGED <<sites, cache, i18n, requests, resolutions, writers, ret>>

\* cache.set("wagtail_site_root_paths", result, 3600)
CacheSet ==
    \E c \in CallerIds :
        /\ callers[c].pc = "scanned"
        /\ cache' = [present |-> TRUE, value |-> callers[c].result]
        /\ callers' = [callers EXCEPT ![c].pc = "return"]
        /\ UNCHANGED <<sites, i18n, requests, resolutions, writers, ret>>

\* return result
Return ==
    \E c \in CallerIds :
        /\ callers[c].pc = "return"
        /\ callers' = [callers EXCEPT ![c].pc = "done"]
        /\ ret' = [op |-> "get_site_root_paths", caller |-> c,
                   value |-> callers[c].result]
        /\ UNCHANGED <<sites, cache, i18n, requests, resolutions, writers>>

NextRace == CacheGet \/ Scan \/ CacheSet \/ Return

SpecRace == InitRace /\ [][NextRace]_vars

====
